---- MODULE Spec2Model ----
(***************************************************************************)
(* Model of nonlinear_solvers/solvers.py: newton_raphson, bisection and    *)
(* solve.  Numbers are exact rationals <<n, d>> with d > 0 in lowest       *)
(* terms; the callables f and df are polynomials given by their            *)
(* coefficient sequences (constant term first).                            *)
(***************************************************************************)
EXTENDS Integers, Sequences, FiniteSets, TLC

VARIABLES inp, mode, nf, bf, spc, sout, bcalls, notices

vars == <<inp, mode, nf, bf, spc, sout, bcalls, notices>>

(* ---------------- bounds and input sets ---------------- *)

MaxIts == 3

Caps == 1..MaxIts

\* x_0 values
Starts == {-2, -1, 0, 1, 2}

\* x_1 values
Ends == {-2, 0, 1, 2, 4}

(* ---------------- rational arithmetic ---------------- *)

Abs(i) == IF i < 0 THEN -i ELSE i

RECURSIVE Gcd(_, _)
Gcd(m, n) == IF n = 0 THEN m ELSE Gcd(n, m % n)

Norm(n, d) ==
  LET g == Gcd(Abs(n), Abs(d))
      s == IF d < 0 THEN -1 ELSE 1
  IN  <<s * (n \div g), s * (d \div g)>>

Rat(i) == <<i, 1>>

RAdd(p, q) == Norm(p[1] * q[2] + q[1] * p[2], p[2] * q[2])

RSub(p, q) == Norm(p[1] * q[2] - q[1] * p[2], p[2] * q[2])

RMul(p, q) == Norm(p[1] * q[1], p[2] * q[2])

\* true division; the caller handles q = 0 (ZeroDivisionError) first
RDiv(p, q) == Norm(p[1] * q[2], p[2] * q[1])

RAbs(p) == <<Abs(p[1]), p[2]>>

RGt(p, q) == p[1] * q[2] > q[1] * p[2]

RLe(p, q) == ~RGt(p, q)

RLt(p, q) == RGt(q, p)

IsZero(p) == p[1] = 0

Two == Rat(2)

(* ---------------- the callables f and df ---------------- *)

\* Horner evaluation of the polynomial with coefficients p at x
RECURSIVE Horner(_, _, _)
Horner(p, i, x) ==
  IF i = 0 THEN Rat(0)
  ELSE IF i = Len(p) THEN Rat(p[i])
  ELSE RAdd(Rat(p[i]), RMul(x, Horner(p, i + 1, x)))

Call(p, x) == Horner(p, 1, x)

\* (f, df) pairs: df is the caller's, not necessarily the derivative of f
Problems ==
  { [f |-> <<-2, 0, 1>>, df |-> <<0, 2>>],     \* x^2 - 2, 2x
    [f |-> <<-1, 1>>,    df |-> <<1>>],        \* x - 1, 1
    [f |-> <<-1, 1>>,    df |-> <<-2>>],       \* x - 1, -2 (wrong derivative)
    [f |-> <<0, -3, 1>>, df |-> <<0>>],        \* x^2 - 3x, 0 (wrong derivative)
    [f |-> <<-1, 2>>,    df |-> <<2>>],        \* 2x - 1, 2
    [f |-> <<3>>,        df |-> <<-2>>] }      \* 3, -2 (no root)

Tolerances == { <<1, 1>>, <<1, 4>>, <<1, 100>> }

(* ---------------- outcomes ---------------- *)

NoVal == Rat(0)

Return(x) == [kind |-> "return", val |-> x]

Raise(e) == [kind |-> e, val |-> NoVal]

Pending == [kind |-> "pending", val |-> NoVal]

(* ---------------- newton_raphson ---------------- *)

NewtonIdle ==
  [pc |-> "idle", f |-> <<0>>, df |-> <<0>>, eps |-> Rat(1), max_its |-> 1,
   x |-> Rat(0), k |-> 1, out |-> Pending]

\* lines 33-34: x = x_0; k = 1
NewtonEnter(f, df, x_0, eps, max_its) ==
  [pc |-> "loop", f |-> f, df |-> df, eps |-> eps, max_its |-> max_its,
   x |-> x_0, k |-> 1, out |-> Pending]

\* line 35: (abs(f(x)) > eps) & (k <= max_its)
NewtonCond(fr) == RGt(RAbs(Call(fr.f, fr.x)), fr.eps) /\ fr.k <= fr.max_its

\* lines 36-37; a zero df(x) makes the division raise ZeroDivisionError
NewtonBody(fr) ==
  IF IsZero(Call(fr.df, fr.x))
  THEN [fr EXCEPT !.pc = "done", !.out = Raise("ZeroDivisionError")]
  ELSE [fr EXCEPT !.x = RSub(fr.x, RDiv(Call(fr.f, fr.x), Call(fr.df, fr.x))),
                  !.k = fr.k + 1]

\* NewtonExit with the cap test off by one (k == max_its)
NewtonExit_CapOffByOne(fr) ==
  IF fr.k = fr.max_its /\ RGt(RAbs(Call(fr.f, fr.x)), fr.eps)
  THEN [fr EXCEPT !.pc = "done", !.out = Raise("ConvergenceError")]
  ELSE [fr EXCEPT !.pc = "done", !.out = Return(fr.x)]

\* lines 38-41
NewtonExit(fr) ==
  IF fr.k = fr.max_its + 1 /\ RGt(RAbs(Call(fr.f, fr.x)), fr.eps)
  THEN [fr EXCEPT !.pc = "done", !.out = Raise("ConvergenceError")]
  ELSE [fr EXCEPT !.pc = "done", !.out = Return(fr.x)]

(* ---------------- bisection ---------------- *)

BisectionIdle ==
  [pc |-> "idle", f |-> <<0>>, eps |-> Rat(1), max_its |-> 1,
   x_0 |-> Rat(0), x_1 |-> Rat(0),
   a |-> Rat(0), b |-> Rat(0), c |-> Rat(0), k |-> 1, fc |-> 0, out |-> Pending]

\* Mid with the parentheses lost: a + b / 2
Mid_NoParens(a, b) == RAdd(a, RDiv(b, Two))

\* line 73 and line 83: (a + b) / 2
Mid(a, b) == RDiv(RAdd(a, b), Two)

\* BisectionEnter rejecting a zero product as well (>= 0)
BisectionEnter_RejectZero(f, x_0, x_1, eps, max_its) ==
  LET fr == [pc |-> "loop", f |-> f, eps |-> eps, max_its |-> max_its,
             x_0 |-> x_0, x_1 |-> x_1,
             a |-> x_0, b |-> x_1, c |-> Mid(x_0, x_1), k |-> 1, fc |-> 0,
             out |-> Pending]
  IN  IF ~RGt(Rat(0), RMul(Call(f, fr.a), Call(f, fr.b)))
      THEN [fr EXCEPT !.pc = "done", !.out = Raise("ValueError")]
      ELSE fr

\* lines 70-76: k, a, b, c, then the sign check; fc counts evaluations of f(c)
BisectionEnter(f, x_0, x_1, eps, max_its) ==
  LET fr == [pc |-> "loop", f |-> f, eps |-> eps, max_its |-> max_its,
             x_0 |-> x_0, x_1 |-> x_1,
             a |-> x_0, b |-> x_1, c |-> Mid(x_0, x_1), k |-> 1, fc |-> 0,
             out |-> Pending]
  IN  IF RGt(RMul(Call(f, fr.a), Call(f, fr.b)), Rat(0))
      THEN [fr EXCEPT !.pc = "done", !.out = Raise("ValueError")]
      ELSE fr

\* BisectionCond allowing one iteration too many
BisectionCond_OneMore(fr) ==
  RGt(RAbs(Call(fr.f, fr.c)), fr.eps) /\ fr.k <= fr.max_its + 1

\* line 77: (abs(f(c)) > eps) & (k <= max_its)
BisectionCond(fr) == RGt(RAbs(Call(fr.f, fr.c)), fr.eps) /\ fr.k <= fr.max_its

\* SameSide looking at the sign of f(c) alone
SameSide_SignOfC(fr) == RGt(Call(fr.f, fr.c), Rat(0))

\* SameSide with the comparison inverted
SameSide_Inverted(fr) == RGt(Rat(0), RMul(Call(fr.f, fr.a), Call(fr.f, fr.c)))

\* line 78: f(a)*f(c) > 0
SameSide(fr) == RGt(RMul(Call(fr.f, fr.a), Call(fr.f, fr.c)), Rat(0))

\* lines 78-83
BisectionBody(fr) ==
  LET a2 == IF SameSide(fr) THEN fr.c ELSE fr.a
      b2 == IF SameSide(fr) THEN fr.b ELSE fr.c
  IN  [fr EXCEPT !.a = a2, !.b = b2, !.k = fr.k + 1, !.c = Mid(a2, b2),
                 !.fc = fr.fc + 2]

\* lines 84-87
BisectionExit(fr) ==
  IF fr.k = fr.max_its + 1 /\ RGt(RAbs(Call(fr.f, fr.c)), fr.eps)
  THEN [fr EXCEPT !.pc = "done", !.out = Raise("ConvergenceError"),
                  !.fc = fr.fc + 2]
  ELSE [fr EXCEPT !.pc = "done", !.out = Return(fr.c), !.fc = fr.fc + 2]

\* the whole call, as one value
RECURSIVE BisectionRun(_)
BisectionRun(fr) ==
  IF fr.pc = "done" THEN fr
  ELSE IF BisectionCond(fr) THEN BisectionRun(BisectionBody(fr))
  ELSE BisectionExit(fr)

BisectionCall(f, x_0, x_1, eps, max_its) ==
  BisectionRun(BisectionEnter(f, x_0, x_1, eps, max_its)).out

(* ---------------- the state machine ---------------- *)

Init ==
  /\ \E p \in Problems, x0 \in Starts, x1 \in Ends, e \in Tolerances,
        mn \in Caps, mb \in Caps :
       inp = [f |-> p.f, df |-> p.df, x_0 |-> Rat(x0), x_1 |-> Rat(x1),
              eps |-> e, max_its_n |-> mn, max_its_b |-> mb]
  /\ mode \in {"newton_raphson", "bisection", "solve"}
  /\ nf = NewtonIdle
  /\ bf = BisectionIdle
  /\ spc = "idle"
  /\ sout = Pending
  /\ bcalls = 0
  /\ notices = <<>>

\* a direct call newton_raphson(f, df, x_0, eps, max_its)
CallNewton ==
  /\ mode = "newton_raphson" /\ nf.pc = "idle"
  /\ nf' = NewtonEnter(inp.f, inp.df, inp.x_0, inp.eps, inp.max_its_n)
  /\ UNCHANGED <<inp, mode, bf, spc, sout, bcalls, notices>>

NewtonIterate ==
  /\ nf.pc = "loop" /\ NewtonCond(nf)
  /\ nf' = NewtonBody(nf)
  /\ UNCHANGED <<inp, mode, bf, spc, sout, bcalls, notices>>

NewtonFinish ==
  /\ nf.pc = "loop" /\ ~NewtonCond(nf)
  /\ nf' = NewtonExit(nf)
  /\ UNCHANGED <<inp, mode, bf, spc, sout, bcalls, notices>>

\* a direct call bisection(f, x_0, x_1, eps, max_its)
CallBisection ==
  /\ mode = "bisection" /\ bf.pc = "idle"
  /\ bf' = BisectionEnter(inp.f, inp.x_0, inp.x_1, inp.eps, inp.max_its_b)
  /\ bcalls' = bcalls + 1
  /\ UNCHANGED <<inp, mode, nf, spc, sout, notices>>

BisectionIterate ==
  /\ bf.pc = "loop" /\ BisectionCond(bf)
  /\ bf' = BisectionBody(bf)
  /\ UNCHANGED <<inp, mode, nf, spc, sout, bcalls, notices>>

BisectionFinish ==
  /\ bf.pc = "loop" /\ ~BisectionCond(bf)
  /\ bf' = BisectionExit(bf)
  /\ UNCHANGED <<inp, mode, nf, spc, sout, bcalls, notices>>

\* solve, lines 121-123: the try block prints and calls newton_raphson
SolveTry ==
  /\ mode = "solve" /\ spc = "idle"
  /\ notices' = Append(notices, "Attempting division by Newton Raphson")
  /\ nf' = NewtonEnter(inp.f, inp.df, inp.x_0, inp.eps, inp.max_its_n)
  /\ spc' = "try"
  /\ UNCHANGED <<inp, mode, bf, sout, bcalls>>

\* an except clause that catches nothing
Caught_Nothing(kind) == FALSE

\* an except clause that catches every exception
Caught_Any(kind) == kind # "return"

\* what the except clause of line 124 catches
Caught(kind) == kind = "ConvergenceError"

\* SolveNewtonDone falling through to bisection after Newton is done
SolveNewtonDone_FallThrough ==
  /\ spc = "try" /\ nf.pc = "done" /\ ~(nf.out.kind = "ConvergenceError")
  /\ bf' = BisectionEnter(inp.f, inp.x_0, inp.x_1, inp.eps, inp.max_its_b)
  /\ bcalls' = bcalls + 1
  /\ spc' = "except"
  /\ UNCHANGED <<inp, mode, nf, sout, notices>>

\* line 123: newton_raphson returned, or raised something line 124 lets through
SolveNewtonDone ==
  /\ spc = "try" /\ nf.pc = "done" /\ ~Caught(nf.out.kind)
  /\ sout' = nf.out
  /\ spc' = "done"
  /\ UNCHANGED <<inp, mode, nf, bf, bcalls, notices>>

\* lines 124-126: the handler prints and calls bisection
SolveExcept ==
  /\ spc = "try" /\ nf.pc = "done" /\ Caught(nf.out.kind)
  /\ notices' = Append(notices, "Attempting division by Bisection")
  /\ bf' = BisectionEnter(inp.f, inp.x_0, inp.x_1, inp.eps, inp.max_its_b)
  /\ bcalls' = bcalls + 1
  /\ spc' = "except"
  /\ UNCHANGED <<inp, mode, nf, sout>>

\* line 126: return bisection(...), or its exception leaves the handler
SolveBisectionDone ==
  /\ spc = "except" /\ bf.pc = "done"
  /\ sout' = bf.out
  /\ spc' = "done"
  /\ UNCHANGED <<inp, mode, nf, bf, bcalls, notices>>

Next ==
  \/ CallNewton
  \/ NewtonIterate
  \/ NewtonFinish
  \/ CallBisection
  \/ BisectionIterate
  \/ BisectionFinish
  \/ SolveTry
  \/ SolveNewtonDone
  \/ SolveExcept
  \/ SolveBisectionDone

Spec == Init /\ [][Next]_vars

(* ---------------- properties ---------------- *)

RECURSIVE Pow2(_)
Pow2(n) == IF n = 0 THEN 1 ELSE 2 * Pow2(n - 1)

Fx0 == Call(inp.f, inp.x_0)

Fx1 == Call(inp.f, inp.x_1)

EndProduct == RMul(Fx0, Fx1)

WithinTol(out) ==
  out.kind = "return" => RLe(RAbs(Call(inp.f, out.val)), inp.eps)

StrictlyWithinTol(out) ==
  out.kind = "return" => RLt(RAbs(Call(inp.f, out.val)), inp.eps)

Between(lo, x, hi) == RLe(lo, x) /\ RLe(x, hi)

Within(x, p, q) == Between(p, x, q) \/ Between(q, x, p)

\* C1: whenever newton_raphson, bisection or solve returns a value r, that
\* value satisfies |f(r)| <= eps.
C1_ReturnWithinTolerance ==
  /\ WithinTol(nf.out)
  /\ WithinTol(bf.out)
  /\ WithinTol(sout)

\* a value returned after the last permitted update, by each method
C1_Witness ==
  \/ /\ mode = "newton_raphson" /\ nf.out.kind = "return"
     /\ nf.k = nf.max_its + 1 /\ nf.max_its >= 2
  \/ /\ mode = "solve" /\ sout.kind = "return" /\ bcalls = 1
     /\ bf.k = bf.max_its + 1

\* C2: bisection raises ValueError if and only if f(x0)*f(x1) > 0, and then
\* no loop iteration has run: the bracket is the initial one, the count is
\* still 1 and f was never evaluated at the midpoint.
C2_InvalidBracket ==
  bf.pc # "idle" =>
    /\ (bf.out.kind = "ValueError") <=> RGt(EndProduct, Rat(0))
    /\ bf.out.kind = "ValueError" =>
         /\ bf.pc = "done"
         /\ bf.k = 1 /\ bf.a = inp.x_0 /\ bf.b = inp.x_1 /\ bf.fc = 0

C2_Witness ==
  /\ mode = "bisection" /\ bf.out.kind = "ValueError"
  /\ inp.x_0 # inp.x_1

C4_FallbackOutcome ==
  (mode = "solve" /\ nf.out.kind = "ConvergenceError") =>
    /\ spc = "except" =>
         /\ bcalls = 1
         /\ <<bf.f, bf.x_0, bf.x_1, bf.eps, bf.max_its>> =
              <<inp.f, inp.x_0, inp.x_1, inp.eps, inp.max_its_b>>
    /\ spc = "done" =>
         /\ bcalls = 1
         /\ sout = bf.out
         /\ sout = BisectionCall(inp.f, inp.x_0, inp.x_1, inp.eps,
                                 inp.max_its_b)

C4_Witness ==
  /\ spc = "done" /\ nf.out.kind = "ConvergenceError"
  /\ sout.kind = "return" /\ bf.k > 1
  /\ inp.max_its_n # inp.max_its_b

\* C5: in solve, when the Newton phase returns a value, solve returns that
\* value and bisection is never called, whatever x_1 and max_its_b are.
C5_NewtonValueReturned ==
  (mode = "solve" /\ nf.out.kind = "return") =>
    /\ bcalls = 0
    /\ bf = BisectionIdle
    /\ spc = "done" => sout = nf.out

\* Newton returned although the bracket (x_0, x_1) is invalid
C5_Witness ==
  /\ spc = "done" /\ nf.out.kind = "return" /\ nf.k > 1
  /\ RGt(EndProduct, Rat(0))

\* C6: a zero df(x) at an iterate that must be updated ends newton_raphson
\* in ZeroDivisionError, never in a value or ConvergenceError; inside solve
\* the fault reaches the caller and bisection is not called.
C6_ZeroDerivativeFault ==
  /\ [][(nf.pc = "loop" /\ NewtonCond(nf) /\ IsZero(Call(nf.df, nf.x)))
          => (nf'.pc = "done" /\ nf'.out.kind = "ZeroDivisionError")]_vars
  /\ [](nf.out.kind = "ZeroDivisionError" =>
          /\ bcalls = 0
          /\ spc = "done" => sout = Raise("ZeroDivisionError"))

C6_Witness ==
  /\ mode = "solve" /\ spc = "done" /\ sout.kind = "ZeroDivisionError"

\* C7: after k loop iterations of bisection the bracket width |b - a| is the
\* initial width |x_1 - x_0| divided by 2^k.
C7_IntervalHalving ==
  bf.pc # "idle" =>
    RMul(RAbs(RSub(bf.b, bf.a)), Rat(Pow2(bf.k - 1))) =
      RAbs(RSub(inp.x_1, inp.x_0))

\* both endpoints have been replaced
C7_Witness ==
  /\ bf.k >= 3 /\ bf.a # inp.x_0 /\ bf.b # inp.x_1

\* C8 as stated: bisection(f, x_0, x_1, ...) and bisection(f, x_1, x_0, ...)
\* have the same outcome for all endpoints, a zero of f at an endpoint
\* included.
C8_OrderIndependent ==
  (mode = "bisection" /\ bf.pc = "done") =>
    bf.out = BisectionCall(inp.f, inp.x_1, inp.x_0, inp.eps, inp.max_its_b)

\* C8 amended: the two calls have the same outcome whenever f is nonzero at
\* both endpoints.
C8_OrderIndependentNonzeroEnds ==
  (mode = "bisection" /\ bf.pc = "done" /\ ~IsZero(EndProduct)) =>
    bf.out = BisectionCall(inp.f, inp.x_1, inp.x_0, inp.eps, inp.max_its_b)

C8_Witness ==
  /\ mode = "bisection" /\ bf.pc = "done" /\ RGt(Rat(0), EndProduct)
  /\ bf.out.kind = "return" /\ bf.k >= 3

\* C9: a solver returns x only when abs(f(x)) < eps holds strictly; an
\* estimate with abs(f(x)) = eps is never returned.
C9_StrictTolerance ==
  /\ StrictlyWithinTol(nf.out)
  /\ StrictlyWithinTol(bf.out)
  /\ StrictlyWithinTol(sout)

\* C10: in bisection started with f(x_0)*f(x_1) <= 0 the bracket keeps
\* f(a)*f(b) <= 0 and the midpoint c, hence any returned value, lies between
\* x_0 and x_1.
C10_BracketPreserved ==
  (bf.pc # "idle" /\ bf.out.kind # "ValueError") =>
    /\ RLe(RMul(Call(bf.f, bf.a), Call(bf.f, bf.b)), Rat(0))
    /\ Within(bf.c, inp.x_0, inp.x_1)
    /\ bf.out.kind = "return" => Within(bf.out.val, inp.x_0, inp.x_1)

\* a returned value after updates on either side
C10_Witness ==
  /\ bf.out.kind = "return" /\ bf.a # inp.x_0 /\ bf.b # inp.x_1

====
